---- MODULE Spec2Model ----
(***************************************************************************)
(* Model of the JSON-RPC / WebSocket bridge of the Avalon TVPaint plugin   *)
(* (avalon/tvpaint/plugin_code/library.cpp).                               *)
(*                                                                         *)
(* Two execution contexts run the code:                                    *)
(*   - the transport thread (m_thread, client::run) which fires on_open,   *)
(*     on_fail, on_close and on_message -> process_message;                *)
(*   - the host thread(s), which enter through PI_Open, PI_Msg             *)
(*     (process_requests, then call_method on a button) and the public     *)
(*     Communicator::call_notification.                                    *)
(* The globals client_request_id, messages and responses are shared by the *)
(* two contexts without any lock.                                          *)
(***************************************************************************)
EXTENDS Integers, Sequences, FiniteSets, TLC

\* ----------------------------------------------------------------- bounds
\* Inbound frames delivered by the peer in one run.
MaxRecv == 2
\* call_method and call_notification invocations in one run.
MaxCalls == 2

\* ------------------------------------------------------ program constants
\* JSON-RPC error codes used by the code and by the codec's exceptions.
MethodNotFound == -32601
ParseError == -32700
InvalidRequest == -32600

\* ---------------------------------------------------------------- values
\* The id of a default-constructed jsonrpcpp::Response / of a frame with no id.
NullId == 0
\* An id read through a null request pointer (process_requests, line 413).
GarbageId == -1
\* Ids the peer puts in its Responses.
RespIds == {1, 2}
\* Result payloads the peer puts in its Responses.
Vals == {"A", "B"}
\* Values of params.seq in a ping.
PingSeqs == {7}

\* A default-constructed jsonrpcpp::Response (line 378, and what
\* std::map::operator[] inserts at line 119).
EmptyResponse == [id |-> NullId, val |-> "empty"]

\* Inbound frames, by what the codec makes of them.  shape is the outcome of
\* parser.do_parse on the text; the other fields are the JSON members.
\* uid is 0 until the frame is delivered, then its arrival number.
Frame(shape, id, method, params, seq, val) ==
    [shape |-> shape, id |-> id, method |-> method, params |-> params,
     seq |-> seq, val |-> val, uid |-> 0]

ResponseFrames == {Frame("response", i, "-", "-", 0, v) : i \in RespIds, v \in Vals}
\* The peer's Requests use the ids 7 and 8: each kind comes with one of
\* them, and between them the kinds use both.
RequestFrames ==
    {Frame("request", 7, "execute_george", "script", 0, "-"),
     Frame("request", 8, "execute_george", "nonstring", 0, "-"),
     Frame("request", 8, "unknown_tool", "script", 0, "-")}
    \cup {Frame("request", 7, "ping", "object", q, "-") : q \in PingSeqs}
NotificationFrames ==
    {Frame("notification", NullId, m, "script", 0, "-") : m \in {"execute_george", "unknown_tool"}}
BrokenFrames ==
    {Frame(s, NullId, "-", "-", 0, "-") :
        s \in {"malformed", "invalid_request", "rpc_violation", "null_entity", "other_failure"}}
InFrames == ResponseFrames \cup RequestFrames \cup NotificationFrames \cup BrokenFrames

\* Outbound frame as handed to m_endpoint->send: code is the error code (0:
\* none), seq is result.seq (0: none), status is m_status at the time of the
\* call, for is the uid of the inbound frame it answers (0: none).
Out(kind, id, code, payload, seq, status, for) ==
    [kind |-> kind, id |-> id, code |-> code, payload |-> payload,
     seq |-> seq, status |-> status, for |-> for]

VARIABLES
    env,               \* WEBSOCKET_URL at construction: "absent", "" or "set"
    crashed,           \* the process was terminated by a fault
    use_avalon,        \* Communicator::use_avalon
    connected,         \* Communicator::connected
    m_status,          \* connection_metadata::m_status, "None": no client_metadata
    m_thread,          \* websocket_endpoint::m_thread: "null" or "running"
    client_request_id, \* global client_request_id
    responses,         \* global responses: function id -> Response
    messages,          \* global messages: FIFO of queued inbound frames
    request_callbacks, \* parser's registered request callbacks
    hostpc,            \* position of each host thread
    request_id,        \* call_method's local request_id, per host thread
    tpc,               \* position of the transport thread
    tmsg,              \* the Response being stored by process_message
    handed,            \* every frame handed to m_endpoint->send, in order
    retlog,            \* every return of call_method: [host, id, sent, value]
    stored,            \* every completed store into responses: [id, val]
    received,          \* every inbound frame delivered, in order of arrival
    handled,           \* every queued frame process_requests took off the queue
    nnotif,            \* call_notification invocations so far
    invoked,           \* every run of a registered handler: [uid, method, thread]
    sent_at            \* per waiting call: frames received when its Request was sent

vars == <<env, crashed, use_avalon, connected, m_status, m_thread,
          client_request_id, responses, messages, request_callbacks,
          hostpc, request_id, tpc, tmsg, handed, retlog, stored, received,
          handled, nnotif, invoked, sent_at>>

\* The host thread that runs the plugin entry points, and a second thread
\* that uses the public Communicator::call_method concurrently (SpecApi).
MainHost == 1
AuxHost == 2

\* --------------------------------------------------------- construction
\* Communicator::Communicator: the outcomes of construction.  std::getenv
\* returns a null pointer for an unset variable and assigning it to a
\* std::string is undefined: the constructor faults on reading through the
\* pointer, or the string is left empty.
Communicator(e) ==
    IF e = "absent"
    THEN <<[crashed |-> TRUE, use_avalon |-> FALSE],
           [crashed |-> FALSE, use_avalon |-> FALSE]>>
    ELSE <<[crashed |-> FALSE, use_avalon |-> (e # "")]>>

\* WEBSOCKET_URL as the process finds it: set to a URL, set to the empty
\* string, or not set.
Envs == <<"set", "", "absent">>

\* The state after static construction.
Init ==
    /\ \E k \in DOMAIN Envs :
          /\ env = Envs[k]
          /\ \E n \in DOMAIN Communicator(Envs[k]) :
                /\ crashed = Communicator(Envs[k])[n].crashed
                /\ use_avalon = Communicator(Envs[k])[n].use_avalon
    /\ connected = FALSE
    /\ m_status = "None"
    /\ m_thread = "null"
    /\ client_request_id = 1
    /\ responses = <<>>
    /\ messages = <<>>
    /\ request_callbacks = {}
    /\ hostpc = [h \in {MainHost, AuxHost} |-> IF h = MainHost THEN "init" ELSE "idle"]
    /\ request_id = [h \in {MainHost, AuxHost} |-> 0]
    /\ tpc = "idle"
    /\ tmsg = EmptyResponse
    /\ handed = <<>>
    /\ retlog = <<>>
    /\ stored = {}
    /\ received = <<>>
    /\ handled = <<>>
    /\ nnotif = 0
    /\ invoked = <<>>
    /\ sent_at = [h \in {MainHost, AuxHost} |-> 0]

\* ------------------------------------------------------------- transport
\* connection_metadata::send: the frame goes to m_endpoint->send whatever
\* m_status is; the library takes it only on an open connection.
send(out) == handed' = Append(handed, out)

\* True for the entries of handed that the library put on the wire.
OnWire(o) == o.status = "Open"

\* on_open setting "Open" on a connection in any status.
on_open_AnyStatus ==
    /\ ~crashed /\ tpc = "idle" /\ m_status # "None"
    /\ m_status' = "Open"
    /\ UNCHANGED <<sent_at, invoked, env, crashed, use_avalon, connected, m_thread,
                   client_request_id, responses, messages, request_callbacks,
                   hostpc, request_id, tpc, tmsg, handed, retlog, stored,
                   received, nnotif, handled>>

\* connection_metadata::on_open, on_fail, on_close: the library fires the
\* open and fail handlers once for a connection that is being established
\* and the close handler once for one that was open.
on_open ==
    /\ ~crashed /\ tpc = "idle" /\ m_status = "Connecting"
    /\ m_status' = "Open"
    /\ UNCHANGED <<sent_at, invoked, env, crashed, use_avalon, connected, m_thread,
                   client_request_id, responses, messages, request_callbacks,
                   hostpc, request_id, tpc, tmsg, handed, retlog, stored,
                   received, nnotif, handled>>

on_fail ==
    /\ ~crashed /\ tpc = "idle" /\ m_status = "Connecting"
    /\ m_status' = "Failed"
    /\ UNCHANGED <<sent_at, invoked, env, crashed, use_avalon, connected, m_thread,
                   client_request_id, responses, messages, request_callbacks,
                   hostpc, request_id, tpc, tmsg, handed, retlog, stored,
                   received, nnotif, handled>>

on_close ==
    /\ ~crashed /\ tpc = "idle" /\ m_status = "Open"
    /\ m_status' = "Closed"
    /\ UNCHANGED <<sent_at, invoked, env, crashed, use_avalon, connected, m_thread,
                   client_request_id, responses, messages, request_callbacks,
                   hostpc, request_id, tpc, tmsg, handed, retlog, stored,
                   received, nnotif, handled>>

\* connection_metadata::ping: the reply it would send for entity f, result.seq
\* copied from params.seq and method, params erased.  Nothing calls it.
ping(f, status) == Out("response", f.id, 0, "-", f.seq, status, f.uid)

\* parser.do_parse: what the codec makes of a frame.  exc names the exception
\* it throws ("" for none), entity the kind of entity it returns ("null"
\* for a null entity_ptr).
do_parse(f) ==
    CASE f.shape = "malformed"       -> [exc |-> "ParseErrorException", entity |-> "null"]
      [] f.shape = "invalid_request" -> [exc |-> "RequestException", entity |-> "null"]
      [] f.shape = "rpc_violation"   -> [exc |-> "RpcException", entity |-> "null"]
      [] f.shape = "other_failure"   -> [exc |-> "std::exception", entity |-> "null"]
      [] f.shape = "null_entity"     -> [exc |-> "", entity |-> "null"]
      [] OTHER                       -> [exc |-> "", entity |-> f.shape]

\* ErrorReply with the last catch block sending a reply as the others do.
ErrorReply_AlwaysReplies(exc, status, uid) ==
    CASE exc = "RequestException"    -> <<Out("error", NullId, InvalidRequest, "-", 0, status, uid)>>
      [] OTHER                       -> <<Out("error", NullId, ParseError, "-", 0, status, uid)>>

\* The frames a catch block of process_message sends for exception exc: one
\* error reply, or none for the last block, which only logs.
ErrorReply(exc, status, uid) ==
    CASE exc = "RequestException"    -> <<Out("error", NullId, InvalidRequest, "-", 0, status, uid)>>
      [] exc = "ParseErrorException" -> <<Out("error", NullId, ParseError, "-", 0, status, uid)>>
      [] exc = "RpcException"        -> <<Out("error", NullId, ParseError, "-", 0, status, uid)>>
      [] OTHER                       -> <<>>

\* The callback run inside parser.parse, as logged: a Request whose method is
\* registered runs its handler on the thread that called parse.
run_callback(m, thread) ==
    invoked' = IF m.shape = "request" /\ m.method \in request_callbacks
               THEN Append(invoked, [uid |-> m.uid, method |-> m.method,
                                     thread |-> thread])
               ELSE invoked

\* process_message calling parser.parse, which dispatches, where the code
\* calls do_parse.
process_message_Dispatches(f) ==
    LET p == do_parse(f) IN
    IF p.exc # ""
    THEN /\ handed' = handed \o ErrorReply(p.exc, m_status, f.uid)
         /\ UNCHANGED <<responses, messages, tpc, tmsg, invoked>>
    ELSE IF p.entity = "null"
    THEN UNCHANGED <<responses, messages, tpc, tmsg, handed, invoked>>
    ELSE IF p.entity = "response"
    THEN /\ responses' = IF f.id \in DOMAIN responses THEN responses
                         ELSE responses @@ (f.id :> EmptyResponse)
         /\ tmsg' = [id |-> f.id, val |-> f.val]
         /\ tpc' = "storing"
         /\ UNCHANGED <<messages, handed, invoked>>
    ELSE /\ messages' = Append(messages, f)
         /\ run_callback(f, "transport")
         /\ UNCHANGED <<responses, tpc, tmsg, handed>>

\* connection_metadata::process_message on frame f (already numbered).  A
\* Response is stored by responses[id] = response, which is two operations:
\* operator[] inserts a default-constructed Response when the key is new, and
\* the assignment follows (process_message_assign).
process_message(f) ==
    LET p == do_parse(f) IN
    IF p.exc # ""
    THEN /\ handed' = handed \o ErrorReply(p.exc, m_status, f.uid)
         /\ UNCHANGED <<responses, messages, tpc, tmsg, invoked>>
    ELSE IF p.entity = "null"
    THEN UNCHANGED <<responses, messages, tpc, tmsg, handed, invoked>>
    ELSE IF p.entity = "response"
    THEN /\ responses' = IF f.id \in DOMAIN responses THEN responses
                         ELSE responses @@ (f.id :> EmptyResponse)
         /\ tmsg' = [id |-> f.id, val |-> f.val]
         /\ tpc' = "storing"
         /\ UNCHANGED <<messages, handed, invoked>>
    ELSE /\ messages' = Append(messages, f)
         /\ UNCHANGED <<responses, tpc, tmsg, handed, invoked>>

\* connection_metadata::on_message: the peer delivers one frame.
on_message ==
    /\ ~crashed /\ tpc = "idle" /\ m_status = "Open"
    /\ Len(received) < MaxRecv
    /\ \E f \in InFrames :
          LET msg == [f EXCEPT !.uid = Len(received) + 1] IN
          /\ process_message(msg)
          /\ received' = Append(received, msg)
    /\ UNCHANGED <<sent_at, env, crashed, use_avalon, connected, m_status, m_thread,
                   client_request_id, request_callbacks, hostpc, request_id,
                   retlog, stored, nnotif, handled>>

\* The assignment half of responses[id] = response (line 119).
process_message_assign ==
    /\ ~crashed /\ tpc = "storing"
    /\ responses' = [responses EXCEPT ![tmsg.id] = tmsg]
    /\ stored' = stored \cup {tmsg}
    /\ tpc' = "idle"
    /\ tmsg' = EmptyResponse
    /\ UNCHANGED <<sent_at, invoked, env, crashed, use_avalon, connected, m_status, m_thread,
                   client_request_id, messages, request_callbacks, hostpc,
                   request_id, handed, retlog, received, nnotif, handled>>

\* ------------------------------------------------------------------ host
\* websocket_endpoint::connect: starts m_thread, then either fails to
\* initialise the connection (-1) or creates client_metadata in status
\* "Connecting" (1).  The "already connected" return (0) needs an open
\* connection before the call, which PI_Open's single call never has.
endpoint_connect(con_result) ==
    /\ m_thread' = "running"
    /\ m_status' = IF con_result = -1 THEN m_status ELSE "Connecting"

\* Communicator::connect.
connect ==
    IF ~use_avalon
    THEN UNCHANGED <<use_avalon, connected, m_status, m_thread>>
    ELSE \E con_result \in {-1, 1} :
            /\ endpoint_connect(con_result)
            /\ IF con_result = -1
               THEN connected' = FALSE /\ use_avalon' = FALSE
               ELSE connected' = TRUE /\ use_avalon' = TRUE

\* register_callbacks.
register_callbacks == request_callbacks' = request_callbacks \cup {"execute_george"}

\* PI_Open: communication.connect(); register_callbacks().
PI_Open ==
    /\ ~crashed /\ hostpc[MainHost] = "init"
    /\ connect
    /\ register_callbacks
    /\ hostpc' = [hostpc EXCEPT ![MainHost] = "idle"]
    /\ UNCHANGED <<sent_at, invoked, env, crashed, client_request_id, responses, messages,
                   request_id, tpc, tmsg, handed, retlog, stored, received,
                   nnotif, handled>>

\* execute_george with the id left out of the Response built in the catch
\* block.
execute_george_LosesId(id, params, tv) ==
    IF params = "script"
    THEN [kind |-> "response", id |-> id, payload |-> tv]
    ELSE [kind |-> "response", id |-> NullId, payload |-> "what"]

\* execute_george: the Response the handler returns.  tv is what TVSendCmd
\* and the comparison of _output yield: a boolean result or an output text.
\* A params[0] that is no string throws inside the inner try, and the
\* Response then carries e.what().
execute_george(id, params, tv) ==
    IF params = "script"
    THEN [kind |-> "response", id |-> id, payload |-> tv]
    ELSE [kind |-> "response", id |-> id, payload |-> "what"]

\* What TVSendCmd and the test of _output can yield.
TVResults == {"bool", "output"}

\* parser.parse on a queued frame: a Request whose method has a registered
\* callback yields the callback's Response; anything else yields the parsed
\* entity itself (no notification callback is ever registered).
parse(m, tv) ==
    IF m.shape = "request" /\ m.method \in request_callbacks
    THEN execute_george(m.id, m.params, tv)
    ELSE [kind |-> m.shape, id |-> m.id, payload |-> "-"]

\* NotFoundReply built from a default Id instead of request->id().
NotFoundReply_NullId(m, status) ==
    Out("error", NullId, MethodNotFound, m.method, 0, status, m.uid)

\* The reply process_requests builds in its else branch for a parsed Request
\* (lines 411-414).
NotFoundReply(m, status) ==
    Out("error", m.id, MethodNotFound, m.method, 0, status, m.uid)

\* The same lines when the entity is a Notification: the dynamic cast to
\* Request yields a null pointer and request->method(), request->id() read
\* through it.  If the process survives, the reply carries whatever was read.
GarbageReply(m, status) ==
    Out("error", GarbageId, MethodNotFound, "garbage", 0, status, m.uid)

\* process_requests' first test (line 402).
Skips == ~use_avalon \/ ~connected \/ messages = <<>>

\* PI_Msg entered again by the host while call_method is polling.
PI_Msg_Reentrant ==
    /\ ~crashed /\ hostpc[MainHost] \in {"idle", "waiting"}
    /\ ~Skips
    /\ hostpc' = [hostpc EXCEPT ![MainHost] = "draining"]
    /\ UNCHANGED <<sent_at, invoked, env, crashed, use_avalon, connected, m_status, m_thread,
                   client_request_id, responses, messages, request_callbacks,
                   request_id, tpc, tmsg, handed, retlog, stored, received,
                   nnotif, handled>>

\* PI_Msg entering the loop of process_requests.  A PI_Msg whose
\* process_requests returns at once and whose event is no tool button
\* changes nothing; one whose event is a tool button is call_method below.
PI_Msg ==
    /\ ~crashed /\ hostpc[MainHost] = "idle"
    /\ ~Skips
    /\ hostpc' = [hostpc EXCEPT ![MainHost] = "draining"]
    /\ UNCHANGED <<sent_at, invoked, env, crashed, use_avalon, connected, m_status, m_thread,
                   client_request_id, responses, messages, request_callbacks,
                   request_id, tpc, tmsg, handed, retlog, stored, received,
                   nnotif, handled>>

\* pop taking the newest item off the queue instead of the oldest.
pop_Newest(msg) ==
    /\ messages' = SubSeq(messages, 1, Len(messages) - 1)
    /\ handled' = Append(handled, msg)

\* messages.pop() at the end of an iteration (line 417).
pop(msg) ==
    /\ messages' = Tail(messages)
    /\ handled' = Append(handled, msg)

\* One iteration of the loop of process_requests (lines 404-418), or its
\* exit when the queue is empty.
process_requests ==
    /\ ~crashed /\ hostpc[MainHost] = "draining"
    /\ IF messages = <<>>
       THEN /\ hostpc' = [hostpc EXCEPT ![MainHost] = "switch"]
            /\ UNCHANGED <<crashed, messages, handed, handled, invoked>>
       ELSE LET msg == Head(messages) IN
            \E tv \in TVResults :
            LET response == parse(msg, tv) IN
            /\ run_callback(msg, "host")
            /\ IF response.kind = "response"
               THEN /\ send(Out("response", response.id, 0, response.payload,
                                0, m_status, msg.uid))
                    /\ pop(msg)
                    /\ UNCHANGED <<crashed, hostpc>>
               ELSE IF response.kind = "request"
               THEN /\ send(NotFoundReply(msg, m_status))
                    /\ pop(msg)
                    /\ UNCHANGED <<crashed, hostpc>>
               ELSE \/ /\ crashed' = TRUE
                       /\ UNCHANGED <<messages, handed, handled, hostpc>>
                    \/ /\ send(GarbageReply(msg, m_status))
                       /\ pop(msg)
                       /\ UNCHANGED <<crashed, hostpc>>
    /\ UNCHANGED <<sent_at, env, use_avalon, connected, m_status, m_thread,
                   client_request_id, responses, request_callbacks,
                   request_id, tpc, tmsg, retlog, stored, received, nnotif>>

\* PI_Msg's switch, after the loop, on an event that is no tool button:
\* nothing is called.
PI_Msg_other ==
    /\ ~crashed /\ hostpc[MainHost] = "switch"
    /\ hostpc' = [hostpc EXCEPT ![MainHost] = "idle"]
    /\ UNCHANGED <<sent_at, invoked, env, crashed, use_avalon, connected, m_status, m_thread,
                   client_request_id, responses, messages, request_callbacks,
                   request_id, tpc, tmsg, handed, retlog, stored, received,
                   nnotif, handled>>

\* Host thread h is where it can enter call_method: the main host in a
\* button case of PI_Msg's switch, which follows process_requests; the
\* second thread at any time.
AtCallSite(h) ==
    IF h = MainHost
    THEN hostpc[h] = "switch" \/ (hostpc[h] = "idle" /\ Skips)
    ELSE hostpc[h] = "idle"

\* A return of call_method, as logged: sent tells whether a Request was sent.
Return(h, id, sent, value) == [host |-> h, id |-> id, sent |-> sent, value |-> value]

\* Invocations of call_method and call_notification so far.
Invocations ==
    Len(retlog) + nnotif
    + Cardinality({g \in {MainHost, AuxHost} : hostpc[g] \in {"allocating", "waiting"}})

\* Communicator::call_method, up to the read of client_request_id (377-383).
call_method(h) ==
    /\ ~crashed /\ AtCallSite(h)
    /\ Invocations < MaxCalls
    /\ IF ~use_avalon \/ ~connected
       THEN /\ retlog' = Append(retlog, Return(h, NullId, FALSE, EmptyResponse))
            /\ hostpc' = [hostpc EXCEPT ![h] = "idle"]
            /\ UNCHANGED request_id
       ELSE /\ request_id' = [request_id EXCEPT ![h] = client_request_id]
            /\ hostpc' = [hostpc EXCEPT ![h] = "allocating"]
            /\ UNCHANGED retlog
    /\ UNCHANGED <<sent_at, invoked, env, crashed, use_avalon, connected, m_status, m_thread,
                   client_request_id, responses, messages, request_callbacks,
                   tpc, tmsg, handed, stored, received, nnotif, handled>>

\* The write half of client_request_id++ and endpoint.send_request (383-385).
call_method_send(h) ==
    /\ ~crashed /\ hostpc[h] = "allocating"
    /\ client_request_id' = request_id[h] + 1
    /\ send(Out("request", request_id[h], 0, "-", 0, m_status, 0))
    /\ hostpc' = [hostpc EXCEPT ![h] = "waiting"]
    /\ sent_at' = [sent_at EXCEPT ![h] = Len(received)]
    /\ UNCHANGED <<invoked, env, crashed, use_avalon, connected, m_status, m_thread,
                   responses, messages, request_callbacks, request_id, tpc,
                   tmsg, retlog, stored, received, nnotif, handled>>

\* The polling loop of call_method (387-398): an iteration that finds the
\* entry returns it; one that does not sleeps and changes nothing.
call_method_poll(h) ==
    /\ ~crashed /\ hostpc[h] = "waiting"
    /\ request_id[h] \in DOMAIN responses
    /\ retlog' = Append(retlog, Return(h, request_id[h], TRUE, responses[request_id[h]]))
    /\ hostpc' = [hostpc EXCEPT ![h] = "idle"]
    /\ request_id' = [request_id EXCEPT ![h] = 0]
    /\ sent_at' = [sent_at EXCEPT ![h] = 0]
    /\ UNCHANGED <<invoked, env, crashed, use_avalon, connected, m_status, m_thread,
                   client_request_id, responses, messages, request_callbacks,
                   tpc, tmsg, handed, stored, received, nnotif, handled>>

\* Communicator::call_notification.
call_notification ==
    /\ ~crashed /\ hostpc[MainHost] = "idle"
    /\ Invocations < MaxCalls
    /\ nnotif' = nnotif + 1
    /\ IF ~use_avalon \/ ~connected
       THEN UNCHANGED handed
       ELSE send(Out("notification", NullId, 0, "-", 0, m_status, 0))
    /\ UNCHANGED <<sent_at, invoked, env, crashed, use_avalon, connected, m_status, m_thread,
                   client_request_id, responses, messages, request_callbacks,
                   hostpc, request_id, tpc, tmsg, retlog, stored, received,
                   handled>>

\* -------------------------------------------------------------- shutdown
\* websocket_endpoint::close_connection up to the join (lines 194-205); the
\* caller moves on to position at.  client_metadata is a null pointer when
\* connect never created a connection, and get_status() reads through it:
\* the process faults, or it survives the read and goes on to the join.
\* On an open connection the close is initiated and on_close fires later.
close_connection(at) ==
    /\ hostpc' = [hostpc EXCEPT ![MainHost] = at]
    /\ IF m_status = "None"
       THEN crashed' \in {TRUE, FALSE}
       ELSE crashed' = FALSE

\* m_thread->join() (line 206); the caller moves on to position done.  A
\* null m_thread (connect never ran) is read through: fault, or nothing is
\* joined.  A thread joined before is not joinable and join throws
\* std::system_error, which nothing catches.  A running thread is joined
\* when its event loop has ended: no connection, or one failed or closed.
join(done) ==
    /\ hostpc' = [hostpc EXCEPT ![MainHost] = done]
    /\ CASE m_thread = "null" ->
               crashed' \in {TRUE, FALSE} /\ m_thread' = m_thread
         [] m_thread = "joined" ->
               crashed' = TRUE /\ m_thread' = m_thread
         [] OTHER ->
               /\ m_status \in {"None", "Failed", "Closed"} /\ tpc = "idle"
               /\ crashed' = FALSE /\ m_thread' = "joined"

\* PI_Close: communication.endpoint.close_connection(), up to the join.
PI_Close ==
    /\ ~crashed /\ hostpc[MainHost] = "idle"
    /\ close_connection("closing")
    /\ UNCHANGED <<sent_at, invoked, env, use_avalon, connected, m_status,
                   m_thread, client_request_id, responses, messages,
                   request_callbacks, request_id, tpc, tmsg, handed, retlog,
                   stored, received, nnotif, handled>>

\* PI_Close: the join of close_connection.
PI_Close_join ==
    /\ ~crashed /\ hostpc[MainHost] = "closing"
    /\ join("closed")
    /\ UNCHANGED <<sent_at, invoked, env, use_avalon, connected, m_status,
                   client_request_id, responses, messages, request_callbacks,
                   request_id, tpc, tmsg, handed, retlog, stored, received,
                   nnotif, handled>>

\* websocket_endpoint::~websocket_endpoint, run when the global communication
\* is destroyed after PI_Close: close_connection again, up to the join.
websocket_endpoint_dtor ==
    /\ ~crashed /\ hostpc[MainHost] = "closed"
    /\ close_connection("destroying")
    /\ UNCHANGED <<sent_at, invoked, env, use_avalon, connected, m_status,
                   m_thread, client_request_id, responses, messages,
                   request_callbacks, request_id, tpc, tmsg, handed, retlog,
                   stored, received, nnotif, handled>>

\* The destructor's join.
websocket_endpoint_dtor_join ==
    /\ ~crashed /\ hostpc[MainHost] = "destroying"
    /\ join("exited")
    /\ UNCHANGED <<sent_at, invoked, env, use_avalon, connected, m_status,
                   client_request_id, responses, messages, request_callbacks,
                   request_id, tpc, tmsg, handed, retlog, stored, received,
                   nnotif, handled>>

\* ------------------------------------------------------- specifications
\* The transport thread.
Transport ==
    \/ on_open
    \/ on_fail
    \/ on_close
    \/ on_message
    \/ process_message_assign

\* The plugin as the host runs it: the host thread entering through PI_Open
\* and PI_Msg, and the transport thread.  Nothing in the plugin calls
\* call_notification.
Next ==
    \/ PI_Open
    \/ PI_Msg
    \/ process_requests
    \/ PI_Msg_other
    \/ call_method(MainHost)
    \/ call_method_send(MainHost)
    \/ call_method_poll(MainHost)
    \/ Transport

Spec == Init /\ [][Next]_vars

\* The bridge driven through the whole public interface of Communicator:
\* call_notification as well, and call_method from a second thread.
NextApi ==
    \/ Next
    \/ call_notification
    \/ call_method(AuxHost)
    \/ call_method_send(AuxHost)
    \/ call_method_poll(AuxHost)

SpecApi == Init /\ [][NextApi]_vars

\* The plugin from load to unload: Next, then PI_Close at shutdown and the
\* destruction of the global communication.
NextLife ==
    \/ Next
    \/ PI_Close
    \/ PI_Close_join
    \/ websocket_endpoint_dtor
    \/ websocket_endpoint_dtor_join

SpecLife == Init /\ [][NextLife]_vars


\* ---------------------------------------------------------------- claims
\* The entries of handed sent on behalf of the inbound frame numbered u.
RepliesTo(u) == {i \in DOMAIN handed : handed[i].for = u}

\* A host thread is inside call_method, past its first test.
InCall(h) == hostpc[h] \in {"allocating", "waiting"}

\* C1: a call_method that sent its Request returns only a Response that
\* process_message has stored under the call's request id, and not before
\* that store is complete.
C1_ReturnsStoredResponse ==
    \A i \in DOMAIN retlog :
        retlog[i].sent =>
            /\ retlog[i].value \in stored
            /\ retlog[i].value.id = retlog[i].id

\* C2: two call_method invocations in flight at the same time have distinct
\* request ids, and each returns only a Response whose id is its own.
C2_DistinctIdsOwnResponse ==
    /\ (hostpc[MainHost] = "waiting" /\ hostpc[AuxHost] = "waiting")
          => request_id[MainHost] # request_id[AuxHost]
    /\ \A i \in DOMAIN retlog :
          retlog[i].sent => retlog[i].value.id = retlog[i].id

\* C3: no fault ends the process while a queued Request is unanswered, and
\* every Request taken from the queue has had exactly one Response with its
\* id handed to the transport.
C3_RequestsAnswered ==
    /\ crashed => \A k \in DOMAIN messages : messages[k].shape # "request"
    /\ \A j \in DOMAIN handled :
          handled[j].shape = "request" =>
             Cardinality({i \in RepliesTo(handled[j].uid) :
                             /\ handed[i].kind \in {"response", "error"}
                             /\ handed[i].id = handled[j].id}) = 1

\* C4: no frame is handed to the transport on behalf of a Notification.
C4_NoReplyToNotification ==
    \A i \in DOMAIN handed :
        handed[i].for # 0 => received[handed[i].for].shape # "notification"

\* C5: with WEBSOCKET_URL absent or empty the bridge is permanently unusable:
\* the process runs, no transport thread is started, no frame is handed to
\* the transport, no call_method waits and every call_method returns an
\* empty Response.
C5_UnsetEnvUnusable ==
    env \in {"absent", ""} =>
        /\ ~crashed
        /\ ~use_avalon /\ ~connected
        /\ m_thread = "null" /\ m_status = "None"
        /\ handed = <<>>
        /\ ~InCall(MainHost) /\ ~InCall(AuxHost)
        /\ \A i \in DOMAIN retlog :
              ~retlog[i].sent /\ retlog[i].value = EmptyResponse

\* connect was attempted and failed: at initialisation (the thread runs but
\* no connection object exists) or at the handshake (on_fail).
ConnectFailed ==
    \/ m_status = "Failed"
    \/ (hostpc[MainHost] # "init" /\ m_thread = "running" /\ m_status = "None")

\* C6: after a failed connect attempt the bridge is permanently unusable:
\* is_usable() and is_connected() are false and no call_method waits.
C6_FailedConnectUnusable ==
    ConnectFailed =>
        /\ ~use_avalon /\ ~connected
        /\ ~InCall(MainHost) /\ ~InCall(AuxHost)

\* A Request whose method has a registered handler / has none.
Registered(m) == m.shape = "request" /\ m.method \in request_callbacks
Unregistered(m) == m.shape = "request" /\ m.method \notin request_callbacks

\* C7: for every Request with an unregistered method that process_requests
\* takes from the queue, exactly one frame is handed to the transport on its
\* behalf, and it is an error Response with code -32601 and the Request's id.
C7_UnknownMethodError ==
    \A j \in DOMAIN handled :
        Unregistered(handled[j]) =>
            /\ Cardinality(RepliesTo(handled[j].uid)) = 1
            /\ \A i \in RepliesTo(handled[j].uid) :
                  /\ handed[i].kind = "error"
                  /\ handed[i].code = MethodNotFound
                  /\ handed[i].id = handled[j].id

\* C7 witness: process_requests has handled Requests with unregistered
\* methods carrying different ids while the connection was open.
C7_Witness ==
    \E j, k \in DOMAIN handled :
        /\ Unregistered(handled[j]) /\ Unregistered(handled[k])
        /\ handled[j].id # handled[k].id
        /\ \A i \in RepliesTo(handled[j].uid) : OnWire(handed[i])

\* C8: for every Request with a registered method that process_requests
\* takes from the queue, whatever its params and whether the handler
\* succeeded or threw, the Response handed to the transport on its behalf
\* carries the Request's id.
C8_RegisteredReplyEchoesId ==
    \A j \in DOMAIN handled :
        Registered(handled[j]) =>
            /\ Cardinality(RepliesTo(handled[j].uid)) = 1
            /\ \A i \in RepliesTo(handled[j].uid) :
                  /\ handed[i].kind = "response"
                  /\ handed[i].id = handled[j].id

\* C8 witness: process_requests has answered one execute_george Request whose
\* handler ran the script and one whose handler threw on its params.
C8_Witness ==
    \E j, k \in DOMAIN handled :
        /\ Registered(handled[j]) /\ handled[j].params = "script"
        /\ Registered(handled[k]) /\ handled[k].params = "nonstring"
        /\ \E i \in RepliesTo(handled[k].uid) : handed[i].payload = "what"
        /\ \E i \in RepliesTo(handled[j].uid) : handed[i].payload \in TVResults

\* Frames that are malformed JSON, that violate the JSON-RPC structure, or
\* that are well-formed JSON but no Request, Notification or Response.
BadShapes == {"malformed", "rpc_violation", "null_entity"}

\* C9: every delivered frame that is malformed or violates the JSON-RPC
\* structure is answered by process_message with exactly one error Response
\* with code -32700, and is never put on the queue.
C9_BadFrameAnswered ==
    /\ \A u \in DOMAIN received :
          received[u].shape \in BadShapes =>
             Cardinality({i \in RepliesTo(u) :
                             /\ handed[i].kind = "error"
                             /\ handed[i].code = ParseError}) = 1
    /\ \A k \in DOMAIN messages : messages[k].shape \notin BadShapes

\* C10: a "ping" Request taken from the queue is answered with the success
\* Response that connection_metadata::ping builds (the Request's id,
\* result.seq = params.seq), and no -32601 error Response is sent for it.
C10_PingEchoed ==
    \A j \in DOMAIN handled :
        (handled[j].shape = "request" /\ handled[j].method = "ping") =>
            /\ \E i \in RepliesTo(handled[j].uid) :
                  handed[i] = ping(handled[j], handed[i].status)
            /\ \A i \in RepliesTo(handled[j].uid) :
                  handed[i].code # MethodNotFound

\* C11: every frame handed to the transport (Request, Notification, Response
\* or error reply) is handed to it while the connection status is Open.
C11_SendsOnlyWhenOpen ==
    \A i \in DOMAIN handed : handed[i].status = "Open"

\* C12: a step creates an entry in responses only for an id that a
\* call_method is awaiting: a Response nobody awaits leaves the table as it
\* was.
C12_UnawaitedResponseDiscarded ==
    [][\A id \in RespIds :
          (id \in DOMAIN responses' /\ id \notin DOMAIN responses) =>
              \E h \in {MainHost, AuxHost} :
                  hostpc[h] = "waiting" /\ request_id[h] = id]_vars

\* The first Response the transport received with this id.
FirstResponse(id) ==
    LET S == {u \in DOMAIN received :
                 received[u].shape = "response" /\ received[u].id = id}
        u == CHOOSE x \in S : \A y \in S : x <= y
    IN  [id |-> id, val |-> received[u].val]

\* C13: once the entry a call_method awaits has been stored it stays the
\* first Response received with that id, and the call returns that first
\* Response.
C13_ResolvedOnce ==
    /\ \A h \in {MainHost, AuxHost} :
          (/\ hostpc[h] = "waiting"
           /\ request_id[h] \in DOMAIN responses
           /\ responses[request_id[h]] # EmptyResponse)
             => responses[request_id[h]] = FirstResponse(request_id[h])
    /\ \A i \in DOMAIN retlog :
          (retlog[i].sent /\ retlog[i].value # EmptyResponse)
             => retlog[i].value = FirstResponse(retlog[i].id)

\* C14: once a call_method has returned the Response for its request id, and
\* no call is in progress, responses holds no entry for that id.
C14_EntryRemovedOnReturn ==
    (~InCall(MainHost) /\ ~InCall(AuxHost)) =>
        \A i \in DOMAIN retlog :
            (retlog[i].sent /\ retlog[i].value.id = retlog[i].id)
                => retlog[i].id \notin DOMAIN responses

\* A frame that process_message puts on the queue.
IsQueued(f) == f.shape \in {"request", "notification"}
IsRequest(f) == f.shape = "request"
\* A frame handed to the transport in answer to a queued Request.
IsRequestReply(o) == o.for # 0 /\ received[o.for].shape = "request"

\* The frames handled so far followed by the queue are the queued frames in
\* their order of arrival, and the replies to Requests were handed to the
\* transport in the order of the Requests handled.
C15_InOrder ==
    /\ handled \o messages = SelectSeq(received, IsQueued)
    /\ LET H == SelectSeq(handled, IsRequest)
           R == SelectSeq(handed, IsRequestReply)
       IN  /\ Len(R) = Len(H)
           /\ \A k \in DOMAIN H : R[k].for = H[k].uid

\* The loop of process_requests is entered only on a connected bridge with a
\* non-empty queue, is left only with the queue empty, and handles nothing
\* when the queue is empty.
C15_Drains ==
    /\ (hostpc[MainHost] # "draining" /\ hostpc'[MainHost] = "draining")
          => (use_avalon /\ connected /\ messages # <<>>)
    /\ (hostpc[MainHost] = "draining" /\ hostpc'[MainHost] # "draining")
          => (messages = <<>> /\ messages' = <<>>)
    /\ messages = <<>> => handled' = handled

\* C15: process_requests handles the queued items in the order the transport
\* received them, sends the replies to Requests in that order, returns only
\* with the queue empty, and returns at once when the queue is empty.
C15_FifoDrain == []C15_InOrder /\ [][C15_Drains]_vars

\* C15 witness: two Requests were queued, process_requests handled both and
\* returned with the queue empty.
C15_Witness ==
    /\ Len(handled) = 2 /\ messages = <<>>
    /\ hostpc[MainHost] = "switch"
    /\ IsRequest(handled[1]) /\ IsRequest(handled[2])
    /\ Len(SelectSeq(handed, IsRequestReply)) = 2

\* A Request handed to the transport by call_method.
IsRequestOut(o) == o.kind = "request"

\* C16: the ids of the Requests call_method sends are strictly increasing in
\* the order of sending, and client_request_id has advanced by exactly one
\* for each Request sent (a call that returns at its first test takes none).
C16_IdsStrictlyIncreasing ==
    LET Q == SelectSeq(handed, IsRequestOut) IN
    /\ \A i, j \in DOMAIN Q : i < j => Q[i].id < Q[j].id
    /\ client_request_id = 1 + Len(Q)

\* The changes of m_status: creation by connect, then the three handlers.
StatusMoves ==
    {<<"None", "Connecting">>, <<"Connecting", "Open">>,
     <<"Connecting", "Failed">>, <<"Open", "Closed">>}

C18_MutualExclusion ==
    [][tpc = "storing" => retlog' = retlog]_vars

\* C19: every run of a registered handler is on the host thread, for a frame
\* that process_requests took from the queue; every Request or Notification
\* the transport received is on the queue or was taken from it, unaltered.
C19_HandlersOnHostTurn ==
    /\ \A i \in DOMAIN invoked :
          /\ invoked[i].thread = "host"
          /\ \E j \in DOMAIN handled : handled[j].uid = invoked[i].uid
    /\ \A u \in DOMAIN received :
          IsQueued(received[u]) =>
              \/ \E k \in DOMAIN messages : messages[k] = received[u]
              \/ \E j \in DOMAIN handled : handled[j] = received[u]

\* C19 witness: the transport queued two execute_george Requests and
\* process_requests ran the handler for both.
C19_Witness ==
    /\ Len(invoked) = 2
    /\ \A i \in DOMAIN invoked : invoked[i].method = "execute_george"

\* C20: a call_method waits only if its Request was written, and a call
\* whose Request could not be written returns an empty Response.
C20_SendErrorNoOp ==
    /\ \A h \in {MainHost, AuxHost} :
          hostpc[h] = "waiting" =>
              \E i \in DOMAIN handed :
                  /\ IsRequestOut(handed[i])
                  /\ handed[i].id = request_id[h]
                  /\ OnWire(handed[i])
    /\ \A k \in DOMAIN retlog :
          (/\ retlog[k].sent
           /\ \A i \in DOMAIN handed :
                 (IsRequestOut(handed[i]) /\ handed[i].id = retlog[k].id)
                     => ~OnWire(handed[i]))
             => retlog[k].value = EmptyResponse

\* The replies to a frame of invalid request shape and to a frame whose
\* handling failed in another way, and where those frames are kept.
C21_Replies ==
    \A u \in DOMAIN received :
        /\ received[u].shape = "invalid_request" =>
              /\ Cardinality(RepliesTo(u)) = 1
              /\ \A i \in RepliesTo(u) :
                    /\ handed[i].kind = "error"
                    /\ handed[i].code = InvalidRequest
                    /\ OnWire(handed[i])
        /\ received[u].shape = "other_failure" => RepliesTo(u) = {}
        /\ received[u].shape \in {"invalid_request", "other_failure"} =>
              /\ \A k \in DOMAIN messages : messages[k].uid # u
              /\ \A j \in DOMAIN handled : handled[j].uid # u

\* The step that receives such a frame leaves responses and messages alone.
C21_Unchanged ==
    (/\ Len(received') = Len(received) + 1
     /\ received'[Len(received')].shape \in {"invalid_request", "other_failure"})
        => (responses' = responses /\ messages' = messages /\ tpc' = tpc)

\* C21: in process_message a codec exception for an invalid request shape
\* yields exactly one error Response with code -32600, sent to the peer; any
\* other failure yields no reply; either way the frame is dropped and
\* responses and messages are unchanged.
C21_ExceptionHandling == []C21_Replies /\ [][C21_Unchanged]_vars

\* C21 witness: the peer sent a frame of invalid request shape, which was
\* answered, and a frame whose handling failed otherwise.
C21_Witness ==
    \E u, v \in DOMAIN received :
        /\ received[u].shape = "invalid_request" /\ RepliesTo(u) # {}
        /\ received[v].shape = "other_failure"

\* The inbound frames that carry Response v and arrived after host h sent
\* its Request.
ArrivedAfterSend(h, v) ==
    {u \in DOMAIN received :
        /\ u > sent_at[h]
        /\ received[u].shape = "response"
        /\ received[u].id = v.id /\ received[u].val = v.val}

\* C22: a call_method returns a Response only if the transport received it
\* after the call's Request was sent.
C22_NoStaleResponse ==
    [][\A h \in {MainHost, AuxHost} :
          (/\ hostpc[h] = "waiting" /\ hostpc'[h] = "idle"
           /\ responses[request_id[h]] # EmptyResponse)
             => ArrivedAfterSend(h, responses[request_id[h]]) # {}]_vars

\* The frames process_requests hands to the transport.
IsDrainReply(o) == o.kind = "response" \/ o.code = MethodNotFound

\* C23: while the host's call_method is in progress no step of
\* process_requests is taken: nothing is taken off the queue, the frames on
\* it stay where they are, and no reply to a queued frame is sent.
C23_NoDrainWhileWaiting ==
    [][request_id[MainHost] # 0 =>
          /\ handled' = handled
          /\ hostpc'[MainHost] # "draining"
          /\ Len(messages') >= Len(messages)
          /\ \A k \in DOMAIN messages : messages'[k] = messages[k]
          /\ \A i \in DOMAIN handed' :
                i > Len(handed) => ~IsDrainReply(handed'[i])]_vars

\* C23 witness: the host waits in call_method, its Request written on an
\* open connection, and a Request the peer sent after it sits on the queue
\* unanswered.
C23_Witness ==
    /\ hostpc[MainHost] = "waiting"
    /\ \E i \in DOMAIN handed : IsRequestOut(handed[i]) /\ OnWire(handed[i])
    /\ \E k \in DOMAIN messages :
          /\ IsRequest(messages[k])
          /\ messages[k].uid > sent_at[MainHost]
          /\ RepliesTo(messages[k].uid) = {}
    /\ request_id[MainHost] \notin DOMAIN responses

\* The host is in close_connection or past it.
InShutdown == hostpc[MainHost] \in {"closing", "closed", "destroying", "exited"}

\* C24: close_connection ends without a fault whatever the state of the
\* bridge (no connection ever created, or one that is Connecting, Open,
\* Failed or Closed), in PI_Close and again in the destructor.
C24_CloseNeverFaults ==
    InShutdown => ~crashed

====
